---- MODULE Spec2Model ----
(***************************************************************************)
(* Selene image transformations (flip, transpose, rotate) over Image       *)
(* buffers, as a state machine: a caller owns a source image `img` and an  *)
(* output image `out` and calls the library's entry points on them.        *)
(*                                                                         *)
(* Coordinates are 0-based as in the code.  An image row is a flat run of  *)
(* stride_bytes / PixelSize cells, the first `width` of which are pixels   *)
(* and the rest row padding.                                               *)
(*                                                                         *)
(* The Pixel value type (construction, arithmetic, negation, comparison)   *)
(* is a second specification, PixelSpec: a program that evaluates one      *)
(* expression over pixels, which compiles to a value or is rejected.       *)
(***************************************************************************)
EXTENDS Integers, Sequences, FiniteSets, TLC

(* ---------------------------------------------------------------- bounds *)

\* Largest image width of an input.
MaxWidth == 3

\* Largest image height of an input.
MaxHeight == 3

\* Largest row padding (in pixels) of a buffer obtained from outside.
MaxPadding == 1

\* sizeof(PixelType) of the instantiation, in bytes.
PixelSize == 2

\* Longest run of one value-returning or in-place call applied to its own result.
MaxChain == 4

\* How often a two-buffer call or maybe_allocate is repeated on the same output.
MaxReuse == 2

(* ---------------------------------------------------------------- values *)

\* Pixel values of the inputs are labels 1..MaxPixelValue.
MaxPixelValue == MaxWidth * MaxHeight

\* Content of storage that was allocated and not written yet.
Indeterminate == 0

\* Content of the padding cells of the inputs.
PadMark == MaxPixelValue + 1

\* Content of the pixels an output buffer holds before the call.
StaleMark == MaxPixelValue + 2

Cells(n) == 0 .. (n - 1)

FlipDirection == {"Horizontal", "Vertical", "Both"}

RotationDirection ==
  {"Clockwise0", "Clockwise90", "Clockwise180", "Clockwise270",
   "Counterclockwise0", "Counterclockwise90", "Counterclockwise180",
   "Counterclockwise270"}

(* ----------------------------------------------------------------- Image *)

\* Number of cells (pixels and padding) of one row.
RowCells(image) == image.stride_bytes \div PixelSize

\* Image<PixelType>(): the default-constructed, empty image.
EmptyImage ==
  [width |-> 0, height |-> 0, stride_bytes |-> 0, gen |-> 0, data |-> << >>]

\* img(x, y)
PixelAt(image, x, y) == image.data[y][x]

\* img(x, y) = v
SetPixel(image, x, y, v) == [image EXCEPT !.data[y][x] = v]

\* A fresh allocation of w * h pixels, tightly packed; gen counts the
\* allocations the image object has made (the identity of its backing store).
Allocate(image, w, h) ==
  [width |-> w, height |-> h, stride_bytes |-> w * PixelSize,
   gen |-> image.gen + 1,
   data |-> [y \in Cells(h) |-> [x \in Cells(w) |-> Indeterminate]]]

\* maybe_allocate(w, h) that reallocates whatever the current shape is.
MaybeAllocateAlways(image, w, h) == Allocate(image, w, h)

\* Image::maybe_allocate(w, h): reuse when the shape matches, else reallocate.
MaybeAllocate(image, w, h) ==
  IF image.width = w /\ image.height = h THEN image ELSE Allocate(image, w, h)

(* ------------------------------------------------------- <algorithm> *)

\* std::copy(first, last, d_first) from row `from` into row `to`.
RECURSIVE StdCopy(_, _, _, _, _)
StdCopy(from, first, last, to, d_first) ==
  IF first # last
  THEN StdCopy(from, first + 1, last, [to EXCEPT ![d_first] = from[first]],
               d_first + 1)
  ELSE to

\* std::reverse_copy(first, last, d_first) from row `from` into row `to`.
RECURSIVE StdReverseCopy(_, _, _, _, _)
StdReverseCopy(from, first, last, to, d_first) ==
  IF first # last
  THEN StdReverseCopy(from, first, last - 1,
                      [to EXCEPT ![d_first] = from[last - 1]], d_first + 1)
  ELSE to

(* ------------------------------------------------------------------ flip *)

\* y_dst of a mirrored row that is off by one.
MirrorRowOffByOne(height, y_src) ==
  IF y_src = 0 THEN 0 ELSE height - y_src

\* const auto y_dst = PixelIndex{img_src.height() - y_src - 1};
MirrorRow(height, y_src) == height - y_src - 1

\* A row loop that stops one row early.
FlipRowEndShort(img_src) ==
  IF img_src.height > 0 THEN img_src.height - 1 ELSE 0

\* A row loop that stops after the first row.
FlipRowEndFirstRow(img_src) == IF img_src.height > 0 THEN 1 ELSE 0

\* for (auto y_src = 0_px; y_src < img_src.height(); ++y_src)
FlipRowEnd(img_src) == img_src.height

\* One pass of the row loop of the selected case of flip's switch.
RECURSIVE FlipRows(_, _, _, _)
FlipRows(flip_dir, img_src, img_dst, y_src) ==
  IF y_src < FlipRowEnd(img_src)
  THEN
    LET y_dst == IF flip_dir = "Horizontal"
                 THEN y_src
                 ELSE MirrorRow(img_src.height, y_src)
        row == IF flip_dir = "Vertical"
               THEN StdCopy(img_src.data[y_src], 0, img_src.width,
                            img_dst.data[y_dst], 0)
               ELSE StdReverseCopy(img_src.data[y_src], 0, img_src.width,
                                   img_dst.data[y_dst], 0)
    IN FlipRows(flip_dir, img_src, [img_dst EXCEPT !.data[y_dst] = row],
                y_src + 1)
  ELSE img_dst

\* flip that allocates its output whatever shape it has.
FlipIntoReallocating(flip_dir, img_src, img_dst) ==
  FlipRows(flip_dir, img_src,
           Allocate(img_dst, img_src.width, img_src.height), 0)

\* flip that returns at once, before maybe_allocate, when the source is empty.
FlipIntoUnlessEmpty(flip_dir, img_src, img_dst) ==
  IF img_src.width = 0 \/ img_src.height = 0
  THEN img_dst
  ELSE FlipRows(flip_dir, img_src,
                MaybeAllocate(img_dst, img_src.width, img_src.height), 0)

\* flip<flip_dir>(img_src, img_dst): the value of img_dst after the call.
FlipInto(flip_dir, img_src, img_dst) ==
  FlipRows(flip_dir, img_src,
           MaybeAllocate(img_dst, img_src.width, img_src.height), 0)

\* Image<PixelType> flip<flip_dir>(img)
FlipValue(flip_dir, image) == FlipInto(flip_dir, image, EmptyImage)

(* --------------------------------------------------------- in-place flips *)

\* half_width that runs the swap loop over the whole row.
HalfWidthWholeRow(image) == image.width

\* const auto half_width = img.width() / 2;
HalfWidth(image) == image.width \div 2

\* The inner loop of flip_horizontally_in_place over one row.
RECURSIVE SwapRowEnds(_, _, _, _)
SwapRowEnds(row_ptr, width, half_width, x_left) ==
  IF x_left < half_width
  THEN
    LET x_right == width - x_left - 1
    IN SwapRowEnds([row_ptr EXCEPT ![x_left] = row_ptr[x_right],
                                   ![x_right] = row_ptr[x_left]],
                   width, half_width, x_left + 1)
  ELSE row_ptr

\* The row loop of flip_horizontally_in_place.
RECURSIVE FlipHorizontallyRows(_, _, _)
FlipHorizontallyRows(image, half_width, y) ==
  IF y < image.height
  THEN FlipHorizontallyRows(
         [image EXCEPT !.data[y] =
            SwapRowEnds(image.data[y], image.width, half_width, 0)],
         half_width, y + 1)
  ELSE image

\* flip_horizontally_in_place that takes the stride for the width of a row.
FlipHorizontallyInPlaceOverStride(image) ==
  LET whole == [image EXCEPT !.width = RowCells(image)]
  IN [FlipHorizontallyRows(whole, HalfWidth(whole), 0)
        EXCEPT !.width = image.width]

\* flip_horizontally_in_place(img)
FlipHorizontallyInPlace(image) ==
  FlipHorizontallyRows(image, HalfWidth(image), 0)

\* half_height that runs the row loop over every row.
HalfHeightAllRows(image) == image.height

\* const auto half_height = img.height() / 2;
HalfHeight(image) == image.height \div 2

\* The inner loop of flip_vertically_in_place: swap two rows pixel by pixel;
\* x_top and x_bottom advance together, from data(y) to data_row_end(y_top).
RECURSIVE SwapRows(_, _, _, _)
SwapRows(image, y_top, y_bottom, x) ==
  IF x # image.width
  THEN SwapRows(
         [image EXCEPT !.data[y_top][x] = image.data[y_bottom][x],
                       !.data[y_bottom][x] = image.data[y_top][x]],
         y_top, y_bottom, x + 1)
  ELSE image

\* The row loop of flip_vertically_in_place.
RECURSIVE FlipVerticallyRows(_, _, _)
FlipVerticallyRows(image, half_height, y_top) ==
  IF y_top < half_height
  THEN FlipVerticallyRows(
         SwapRows(image, y_top, MirrorRow(image.height, y_top), 0),
         half_height, y_top + 1)
  ELSE image

\* flip_vertically_in_place(img)
FlipVerticallyInPlace(image) ==
  FlipVerticallyRows(image, HalfHeight(image), 0)

\* The row loop of the row-buffer variant (the block under #if 0):
\* buffer <- row y_top; row y_top <- row y_bottom; row y_bottom <- buffer.
RECURSIVE RowBufferRows(_, _, _, _)
RowBufferRows(image, buffer, half_height, y_top) ==
  IF y_top < half_height
  THEN
    LET y_bottom == image.height - 1 - y_top
        buffer1 == StdCopy(image.data[y_top], 0, image.width, buffer, 0)
        image1 == [image EXCEPT !.data[y_top] =
                     StdCopy(image.data[y_bottom], 0, image.width,
                             image.data[y_top], 0)]
        image2 == [image1 EXCEPT !.data[y_bottom] =
                     StdCopy(buffer1, 0, image.width,
                             image1.data[y_bottom], 0)]
    IN RowBufferRows(image2, buffer1, half_height, y_top + 1)
  ELSE image

\* flip_vertically_in_place with the row-buffer block in place of the swap loop.
FlipVerticallyInPlaceRowBuffer(image) ==
  RowBufferRows(image, [x \in Cells(image.width) |-> Indeterminate],
                HalfHeight(image), 0)

(* ------------------------------------------------------------- transpose *)

\* src_x that ignores flip_v.
TransposeSrcXNoFlip(flip_v, img_src, dst_y) == dst_y

\* const auto src_x = flip_v ? PixelIndex{img_src.width() - 1 - dst_y} : dst_y;
TransposeSrcX(flip_v, img_src, dst_y) ==
  IF flip_v THEN img_src.width - 1 - dst_y ELSE dst_y

\* const auto src_y = flip_h ? PixelIndex{img_src.height() - 1 - dst_x} : dst_x;
TransposeSrcY(flip_h, img_src, dst_x) ==
  IF flip_h THEN img_src.height - 1 - dst_x ELSE dst_x

\* A column loop that stops one column early.
TransposeColEndShort(img_dst) ==
  IF img_dst.width > 0 THEN img_dst.width - 1 ELSE 0

\* for (auto dst_x = 0_px; dst_x < img_dst.width(); ++dst_x)
TransposeColEnd(img_dst) == img_dst.width

\* The inner loop of transpose over dst_x.
RECURSIVE TransposeRow(_, _, _, _, _, _)
TransposeRow(flip_h, flip_v, img_src, img_dst, dst_y, dst_x) ==
  IF dst_x < TransposeColEnd(img_dst)
  THEN
    LET src_x == TransposeSrcX(flip_v, img_src, dst_y)
        src_y == TransposeSrcY(flip_h, img_src, dst_x)
    IN TransposeRow(flip_h, flip_v, img_src,
                    SetPixel(img_dst, dst_x, dst_y,
                             PixelAt(img_src, src_x, src_y)),
                    dst_y, dst_x + 1)
  ELSE img_dst

\* A row loop that stops one row early.
TransposeRowEndShort(img_dst) ==
  IF img_dst.height > 0 THEN img_dst.height - 1 ELSE 0

\* for (auto dst_y = 0_px; dst_y < img_dst.height(); ++dst_y)
TransposeRowEnd(img_dst) == img_dst.height

\* The outer loop of transpose over dst_y.
RECURSIVE TransposeRows(_, _, _, _, _)
TransposeRows(flip_h, flip_v, img_src, img_dst, dst_y) ==
  IF dst_y < TransposeRowEnd(img_dst)
  THEN TransposeRows(flip_h, flip_v, img_src,
                     TransposeRow(flip_h, flip_v, img_src, img_dst, dst_y, 0),
                     dst_y + 1)
  ELSE img_dst

\* transpose<flip_h, flip_v>(img_src, img_dst): img_dst after the call.
TransposeInto(flip_h, flip_v, img_src, img_dst) ==
  TransposeRows(flip_h, flip_v, img_src,
                MaybeAllocate(img_dst, img_src.height, img_src.width), 0)

\* Image<PixelType> transpose<flip_h, flip_v>(img): the body calls
\* transpose(img, img_t) with no template arguments, which is the
\* declaration's default transpose<false, false>.
TransposeValue(flip_h, flip_v, image) ==
  TransposeInto(FALSE, FALSE, image, EmptyImage)

(* ---------------------------------------------------------------- rotate *)

\* The row loop of clone: copy the pixels of every row.
RECURSIVE CloneRows(_, _, _)
CloneRows(img_src, img_dst, y) ==
  IF y < img_src.height
  THEN CloneRows(img_src,
                 [img_dst EXCEPT !.data[y] =
                    StdCopy(img_src.data[y], 0, img_src.width,
                            img_dst.data[y], 0)],
                 y + 1)
  ELSE img_dst

\* clone(img_src, img_dst): an identical-shape copy of img_src.
Clone(img_src, img_dst) ==
  CloneRows(img_src, MaybeAllocate(img_dst, img_src.width, img_src.height), 0)

\* rotate's switch with the two quarter turns exchanged.
RotateIntoQuarterTurnsExchanged(rot_dir, img_src, img_dst) ==
  CASE rot_dir \in {"Clockwise0", "Counterclockwise0"} ->
         Clone(img_src, img_dst)
    [] rot_dir \in {"Clockwise90", "Counterclockwise270"} ->
         TransposeInto(FALSE, TRUE, img_src, img_dst)
    [] rot_dir \in {"Clockwise180", "Counterclockwise180"} ->
         FlipInto("Both", img_src, img_dst)
    [] rot_dir \in {"Clockwise270", "Counterclockwise90"} ->
         TransposeInto(TRUE, FALSE, img_src, img_dst)

\* rotate's switch with the half turn flipping the rows only.
RotateIntoHalfTurnFlipsRows(rot_dir, img_src, img_dst) ==
  CASE rot_dir \in {"Clockwise0", "Counterclockwise0"} ->
         Clone(img_src, img_dst)
    [] rot_dir \in {"Clockwise90", "Counterclockwise270"} ->
         TransposeInto(TRUE, FALSE, img_src, img_dst)
    [] rot_dir \in {"Clockwise180", "Counterclockwise180"} ->
         FlipInto("Vertical", img_src, img_dst)
    [] rot_dir \in {"Clockwise270", "Counterclockwise90"} ->
         TransposeInto(FALSE, TRUE, img_src, img_dst)

\* rotate<rot_dir>(img_src, img_dst): img_dst after the call.
RotateInto(rot_dir, img_src, img_dst) ==
  CASE rot_dir \in {"Clockwise0", "Counterclockwise0"} ->
         Clone(img_src, img_dst)
    [] rot_dir \in {"Clockwise90", "Counterclockwise270"} ->
         TransposeInto(TRUE, FALSE, img_src, img_dst)
    [] rot_dir \in {"Clockwise180", "Counterclockwise180"} ->
         FlipInto("Both", img_src, img_dst)
    [] rot_dir \in {"Clockwise270", "Counterclockwise90"} ->
         TransposeInto(FALSE, TRUE, img_src, img_dst)

\* Image<PixelType> rotate<rot_dir>(img)
RotateValue(rot_dir, image) == RotateInto(rot_dir, image, EmptyImage)

(* -------------------------------------------------------------- aliasing *)

\* SELENE_ASSERT(&img_src != &img_dst): the call goes on unless assertions
\* are compiled in and the two arguments are the same image.
AssertDistinct(aliased, assertions) == ~(aliased /\ assertions)

\* What a two-buffer call may leave in an image passed as both arguments
\* when no assertion stops it (the contract leaves it undefined): the image
\* as it was, a reallocated image, or the pixels of a call on a copy.
UndefinedOutcomes(image, reshaped, as_if_distinct) ==
  {image, reshaped, as_if_distinct}

\* A self-flip that checks its arguments after the work is done.
FlipOntoItselfAssertLast(flip_dir, image, assertions, undefined) ==
  IF AssertDistinct(TRUE, assertions)
  THEN [failed |-> FALSE, image |-> undefined]
  ELSE [failed |-> TRUE, image |-> FlipInto(flip_dir, image, image)]

\* flip<flip_dir>(image, image): the assertion is the first statement.
FlipOntoItself(flip_dir, image, assertions, undefined) ==
  IF AssertDistinct(TRUE, assertions)
  THEN [failed |-> FALSE, image |-> undefined]
  ELSE [failed |-> TRUE, image |-> image]

\* transpose<flip_h, flip_v>(image, image)
TransposeOntoItself(flip_h, flip_v, image, assertions, undefined) ==
  IF AssertDistinct(TRUE, assertions)
  THEN [failed |-> FALSE, image |-> undefined]
  ELSE [failed |-> TRUE, image |-> image]

\* rotate<rot_dir>(image, image): the assertion precedes the switch.
RotateOntoItself(rot_dir, image, assertions, undefined) ==
  IF AssertDistinct(TRUE, assertions)
  THEN [failed |-> FALSE, image |-> undefined]
  ELSE [failed |-> TRUE, image |-> image]

(* -------------------------------------------------------------- accesses *)

\* What a call does to pixel storage, in order: the pixels it reads and
\* writes, by buffer and coordinate, and the mirrored indices it computes.
ReadOf(buf, x, y) == [kind |-> "read", buf |-> buf, x |-> x, y |-> y]
WriteOf(buf, x, y) == [kind |-> "write", buf |-> buf, x |-> x, y |-> y]
IndexOf(value) == [kind |-> "index", buf |-> "", x |-> value, y |-> 0]

\* std::swap(a, b) of two pixels
SwapOf(buf, xa, ya, xb, yb) ==
  <<ReadOf(buf, xa, ya), ReadOf(buf, xb, yb),
    WriteOf(buf, xa, ya), WriteOf(buf, xb, yb)>>

\* std::copy(first, last, d_first) from row y_from of `from` to row y_to of `to`.
RECURSIVE StdCopyAccesses(_, _, _, _, _, _, _)
StdCopyAccesses(from, y_from, first, last, to, y_to, d_first) ==
  IF first # last
  THEN <<ReadOf(from, first, y_from), WriteOf(to, d_first, y_to)>> \o
       StdCopyAccesses(from, y_from, first + 1, last, to, y_to, d_first + 1)
  ELSE << >>

\* A reverse read that dereferences `last` itself, one past the pixels.
ReverseReadOfLast(from, y_from, last) == ReadOf(from, last, y_from)

\* std::reverse_copy reads *(--last).
ReverseReadOf(from, y_from, last) == ReadOf(from, last - 1, y_from)

\* std::reverse_copy(first, last, d_first), likewise.
RECURSIVE StdReverseCopyAccesses(_, _, _, _, _, _, _)
StdReverseCopyAccesses(from, y_from, first, last, to, y_to, d_first) ==
  IF first # last
  THEN <<ReverseReadOf(from, y_from, last), WriteOf(to, d_first, y_to)>> \o
       StdReverseCopyAccesses(from, y_from, first, last - 1, to, y_to,
                              d_first + 1)
  ELSE << >>

\* The row loop of the selected case of flip's switch.
RECURSIVE FlipRowsAccesses(_, _, _)
FlipRowsAccesses(flip_dir, img_src, y_src) ==
  IF y_src < FlipRowEnd(img_src)
  THEN
    LET y_dst == IF flip_dir = "Horizontal"
                 THEN y_src
                 ELSE MirrorRow(img_src.height, y_src)
        mirrored == IF flip_dir = "Horizontal"
                    THEN << >>
                    ELSE <<IndexOf(y_dst)>>
        row == IF flip_dir = "Vertical"
               THEN StdCopyAccesses("src", y_src, 0, img_src.width,
                                    "dst", y_dst, 0)
               ELSE StdReverseCopyAccesses("src", y_src, 0, img_src.width,
                                           "dst", y_dst, 0)
    IN mirrored \o row \o FlipRowsAccesses(flip_dir, img_src, y_src + 1)
  ELSE << >>

\* flip<flip_dir>(img_src, img_dst)
FlipAccesses(flip_dir, img_src) == FlipRowsAccesses(flip_dir, img_src, 0)

\* The inner loop of flip_horizontally_in_place over row y.
RECURSIVE SwapRowEndsAccesses(_, _, _, _)
SwapRowEndsAccesses(y, width, half_width, x_left) ==
  IF x_left < half_width
  THEN
    LET x_right == width - x_left - 1
    IN <<IndexOf(x_right)>> \o SwapOf("img", x_left, y, x_right, y) \o
       SwapRowEndsAccesses(y, width, half_width, x_left + 1)
  ELSE << >>

\* The row loop of flip_horizontally_in_place.
RECURSIVE FlipHorizontallyRowsAccesses(_, _, _)
FlipHorizontallyRowsAccesses(image, half_width, y) ==
  IF y < image.height
  THEN SwapRowEndsAccesses(y, image.width, half_width, 0) \o
       FlipHorizontallyRowsAccesses(image, half_width, y + 1)
  ELSE << >>

\* flip_horizontally_in_place(img)
FlipHorizontallyInPlaceAccesses(image) ==
  FlipHorizontallyRowsAccesses(image, HalfWidth(image), 0)

\* The inner loop of flip_vertically_in_place.
RECURSIVE SwapRowsAccesses(_, _, _, _)
SwapRowsAccesses(image, y_top, y_bottom, x) ==
  IF x # image.width
  THEN SwapOf("img", x, y_top, x, y_bottom) \o
       SwapRowsAccesses(image, y_top, y_bottom, x + 1)
  ELSE << >>

\* The row loop of flip_vertically_in_place.
RECURSIVE FlipVerticallyRowsAccesses(_, _, _)
FlipVerticallyRowsAccesses(image, half_height, y_top) ==
  IF y_top < half_height
  THEN
    LET y_bottom == MirrorRow(image.height, y_top)
    IN <<IndexOf(y_bottom)>> \o SwapRowsAccesses(image, y_top, y_bottom, 0) \o
       FlipVerticallyRowsAccesses(image, half_height, y_top + 1)
  ELSE << >>

\* flip_vertically_in_place(img)
FlipVerticallyInPlaceAccesses(image) ==
  FlipVerticallyRowsAccesses(image, HalfHeight(image), 0)

\* The row loop of the row-buffer variant.
RECURSIVE RowBufferRowsAccesses(_, _, _)
RowBufferRowsAccesses(image, half_height, y_top) ==
  IF y_top < half_height
  THEN
    LET y_bottom == image.height - 1 - y_top
    IN <<IndexOf(y_bottom)>> \o
       StdCopyAccesses("img", y_top, 0, image.width, "buffer", 0, 0) \o
       StdCopyAccesses("img", y_bottom, 0, image.width, "img", y_top, 0) \o
       StdCopyAccesses("buffer", 0, 0, image.width, "img", y_bottom, 0) \o
       RowBufferRowsAccesses(image, half_height, y_top + 1)
  ELSE << >>

\* flip_vertically_in_place with the row-buffer block in place of the swap loop.
FlipVerticallyInPlaceRowBufferAccesses(image) ==
  RowBufferRowsAccesses(image, HalfHeight(image), 0)

\* The inner loop of transpose over dst_x.
RECURSIVE TransposeRowAccesses(_, _, _, _, _, _)
TransposeRowAccesses(flip_h, flip_v, img_src, img_dst, dst_y, dst_x) ==
  IF dst_x < TransposeColEnd(img_dst)
  THEN
    LET src_x == TransposeSrcX(flip_v, img_src, dst_y)
        src_y == TransposeSrcY(flip_h, img_src, dst_x)
    IN (IF flip_v THEN <<IndexOf(src_x)>> ELSE << >>) \o
       (IF flip_h THEN <<IndexOf(src_y)>> ELSE << >>) \o
       <<ReadOf("src", src_x, src_y), WriteOf("dst", dst_x, dst_y)>> \o
       TransposeRowAccesses(flip_h, flip_v, img_src, img_dst, dst_y,
                            dst_x + 1)
  ELSE << >>

\* The outer loop of transpose over dst_y.
RECURSIVE TransposeRowsAccesses(_, _, _, _, _)
TransposeRowsAccesses(flip_h, flip_v, img_src, img_dst, dst_y) ==
  IF dst_y < TransposeRowEnd(img_dst)
  THEN TransposeRowAccesses(flip_h, flip_v, img_src, img_dst, dst_y, 0) \o
       TransposeRowsAccesses(flip_h, flip_v, img_src, img_dst, dst_y + 1)
  ELSE << >>

\* transpose<flip_h, flip_v>(img_src, img_dst)
TransposeAccesses(flip_h, flip_v, img_src, img_dst) ==
  TransposeRowsAccesses(flip_h, flip_v, img_src,
                        MaybeAllocate(img_dst, img_src.height, img_src.width),
                        0)

\* The row loop of clone.
RECURSIVE CloneRowsAccesses(_, _)
CloneRowsAccesses(img_src, y) ==
  IF y < img_src.height
  THEN StdCopyAccesses("src", y, 0, img_src.width, "dst", y, 0) \o
       CloneRowsAccesses(img_src, y + 1)
  ELSE << >>

\* rotate<rot_dir>(img_src, img_dst)
RotateAccesses(rot_dir, img_src, img_dst) ==
  CASE rot_dir \in {"Clockwise0", "Counterclockwise0"} ->
         CloneRowsAccesses(img_src, 0)
    [] rot_dir \in {"Clockwise90", "Counterclockwise270"} ->
         TransposeAccesses(TRUE, FALSE, img_src, img_dst)
    [] rot_dir \in {"Clockwise180", "Counterclockwise180"} ->
         FlipAccesses("Both", img_src)
    [] rot_dir \in {"Clockwise270", "Counterclockwise90"} ->
         TransposeAccesses(FALSE, TRUE, img_src, img_dst)

(* ----------------------------------------------------------------- pixel *)

\* The largest channel count of the pixels, and the largest magnitude of
\* their element values (counted from either end of the type's range).
MaxChannels == 3
MaxValue == 2

\* enum class PixelFormat and the channel count of each format.
PixelFormat == {"Y", "X", "YA", "RGB", "BGR", "RGBA", "Unknown"}

get_nr_channels(pixel_format) ==
  CASE pixel_format \in {"Y", "X"} -> 1
    [] pixel_format = "YA" -> 2
    [] pixel_format \in {"RGB", "BGR"} -> 3
    [] pixel_format = "RGBA" -> 4
    [] pixel_format = "Unknown" -> 0

\* The element types T of the pixels: std::uint8_t and std::int32_t.
ElementTypes == {"uint8", "int32"}

\* static_cast<T>(v) of an int v: modulo 2^8 for std::uint8_t, v itself for
\* std::int32_t (the type the operands are promoted to and computed in).
StaticCast(T, v) == IF T = "uint8" THEN v % (2 ^ 8) ELSE v

\* std::common_type_t<T, U>: the type itself, or int for two different ones.
CommonType(T, U) == IF T = U THEN T ELSE "int32"

Abs(v) == IF v < 0 THEN -v ELSE v

\* Integer division that rounds towards negative infinity.
FlooredDivision(a, b) == a \div b

\* a / b on promoted integers: the quotient truncated towards zero.
TruncatedDivision(a, b) ==
  IF (a < 0) = (b < 0) THEN Abs(a) \div Abs(b) ELSE -(Abs(a) \div Abs(b))

\* lhs[i] op rhs[i] on the promoted operands (int), before it is stored.
ElementOp(op, a, b) ==
  CASE op = "+" -> a + b
    [] op = "-" -> a - b
    [] op = "*" -> a * b
    [] op = "/" -> TruncatedDivision(a, b)

\* A pixel: Pixel<value_type, nr_channels, pixel_format> holding data_.
Pixel(T, nr_channels, pixel_format, data) ==
  [value_type |-> T, nr_channels |-> nr_channels,
   pixel_format |-> pixel_format, data_ |-> data]

\* A scalar of type T.
Scalar(T, value) == [value_type |-> T, value |-> value]

\* The outcomes of an expression: it does not compile, it yields a value, or
\* it divides by zero and traps.
Rejected == [status |-> "rejected"]
Value(value) == [status |-> "value", value |-> value]
Trapped == [status |-> "trapped"]

\* The class's static_assert: get_nr_channels(pixel_format_) == nr_channels_
\* || pixel_format_ == PixelFormat::Unknown.
PixelTypeOk(nr_channels, pixel_format) ==
  get_nr_channels(pixel_format) = nr_channels \/ pixel_format = "Unknown"

\* A format check that lets every pair of formats through.
FormatsCompatibleAlways(pixel_format_0, pixel_format_1) == TRUE

\* The static_assert of the Pixel-Pixel operators.
FormatsCompatible(pixel_format_0, pixel_format_1) ==
  \/ pixel_format_0 = pixel_format_1
  \/ pixel_format_0 = "Unknown"
  \/ pixel_format_1 = "Unknown"

\* Pixel(Args... args): data_{{static_cast<T>(args)...}}, enabled for exactly
\* nr_channels arguments.
Construct(T, nr_channels, pixel_format, args) ==
  IF PixelTypeOk(nr_channels, pixel_format) /\ Len(args) = nr_channels
  THEN Value(Pixel(T, nr_channels, pixel_format,
                   [i \in Cells(nr_channels) |-> StaticCast(T, args[i + 1])]))
  ELSE Rejected

\* Pixel<...> result{}: every element value-initialised.
ZeroData(nr_channels) == [i \in Cells(nr_channels) |-> 0]

\* A loop over the channels that leaves out the last one.
ChannelLoopEndShort(nr_channels) == nr_channels - 1

\* for (std::size_t i = 0; i < nr_channels_; ++i) of the arithmetic operators
ChannelLoopEnd(nr_channels) == nr_channels

\* What an integer division by zero can do: trap, or go on with some value.
UndefinedDivisions ==
  {[trap |-> TRUE, value |-> 0]} \cup
  {[trap |-> FALSE, value |-> v] : v \in 0 .. 1}

\* operand[i] of a pixel; a scalar operand is read whole.
At(operand, i) ==
  IF "data_" \in DOMAIN operand THEN operand.data_[i] ELSE operand.value

\* Some divisor of an elementwise division is zero.
DividesByZero(op, rhs, nr_channels) ==
  op = "/" /\ \E i \in Cells(nr_channels) : At(rhs, i) = 0

\* The loop of the arithmetic operators: result[i] = lhs[i] op rhs[i], stored
\* in the result's element type T.
RECURSIVE ArithmeticLoop(_, _, _, _, _, _, _, _)
ArithmeticLoop(op, lhs, rhs, T, nr_channels, result, i, undefined) ==
  IF i < ChannelLoopEnd(nr_channels)
  THEN ArithmeticLoop(
         op, lhs, rhs, T, nr_channels,
         [result EXCEPT ![i] =
            IF op = "/" /\ At(rhs, i) = 0
            THEN StaticCast(T, undefined.value)
            ELSE StaticCast(T, ElementOp(op, At(lhs, i), At(rhs, i)))],
         i + 1, undefined)
  ELSE result

\* The result of an arithmetic operator once its result type is fixed.
Arithmetic(op, lhs, rhs, T, nr_channels, pixel_format, undefined) ==
  IF DividesByZero(op, rhs, nr_channels) /\ undefined.trap
  THEN Trapped
  ELSE Value(Pixel(T, nr_channels, pixel_format,
                   ArithmeticLoop(op, lhs, rhs, T, nr_channels,
                                  ZeroData(nr_channels), 0, undefined)))

\* A result that takes the format of the left operand, whatever it is.
ResultFormatOfLeft(pixel_format_0, pixel_format_1) == pixel_format_0

\* pixel_format_1 == PixelFormat::Unknown ? pixel_format_0 : pixel_format_1
ResultFormat(pixel_format_0, pixel_format_1) ==
  IF pixel_format_1 = "Unknown" THEN pixel_format_0 ELSE pixel_format_1

\* operator+, -, *, / (Pixel<T, N, F0> lhs, const Pixel<U, N, F1>& rhs)
PixelOpPixel(op, lhs, rhs, undefined) ==
  IF FormatsCompatible(lhs.pixel_format, rhs.pixel_format)
  THEN Arithmetic(op, lhs, rhs,
                  CommonType(lhs.value_type, rhs.value_type),
                  lhs.nr_channels,
                  ResultFormat(lhs.pixel_format, rhs.pixel_format),
                  undefined)
  ELSE Rejected

\* operator+, -, *, / (Pixel<T, N, F> lhs, U rhs)
PixelOpScalar(op, lhs, rhs, undefined) ==
  Arithmetic(op, lhs, rhs, CommonType(lhs.value_type, rhs.value_type),
             lhs.nr_channels, lhs.pixel_format, undefined)

\* operator+, * (T lhs, Pixel<U, N, F> rhs)
ScalarOpPixel(op, lhs, rhs) ==
  Arithmetic(op, lhs, rhs, CommonType(lhs.value_type, rhs.value_type),
             rhs.nr_channels, rhs.pixel_format,
             [trap |-> FALSE, value |-> 0])

\* The loop of operator-(): result[i] = -data_[i].
RECURSIVE NegationLoop(_, _, _)
NegationLoop(px, result, i) ==
  IF i < px.nr_channels
  THEN NegationLoop(
         px,
         [result EXCEPT ![i] = StaticCast(px.value_type, -px.data_[i])],
         i + 1)
  ELSE result

\* `return result;` of a Pixel<T, N, Unknown> from a function returning
\* Pixel<T, N, pixel_format>: a copy for the same type; for one channel the
\* variadic constructor, fed through the conversion to T; no conversion else.
ReturnAs(pixel_format, result) ==
  IF pixel_format = result.pixel_format
  THEN Value(result)
  ELSE IF result.nr_channels = 1
       THEN Construct(result.value_type, 1, pixel_format,
                      <<result.data_[0]>>)
       ELSE Rejected

\* Pixel<T, N, F>::operator-()
Negation(px) ==
  ReturnAs(px.pixel_format,
           Pixel(px.value_type, px.nr_channels, "Unknown",
                 NegationLoop(px, ZeroData(px.nr_channels), 0)))

\* A comparison loop that leaves out the last channel.
EqualLoopEndShort(nr_channels) == nr_channels - 1

\* for (std::size_t i = 0; i < nr_channels_; ++i) of operator==
EqualLoopEnd(nr_channels) == nr_channels

\* The loop of operator==: equal &= (px0[i] == px1[i]).
RECURSIVE EqualLoop(_, _, _, _)
EqualLoop(px0, px1, equal, i) ==
  IF i < EqualLoopEnd(px0.nr_channels)
  THEN EqualLoop(px0, px1, equal /\ (px0.data_[i] = px1.data_[i]), i + 1)
  ELSE equal

\* operator==(const Pixel<T, N, F0>& px0, const Pixel<T, N, F1>& px1)
Equal(px0, px1) ==
  IF FormatsCompatible(px0.pixel_format, px1.pixel_format)
  THEN Value(EqualLoop(px0, px1, TRUE, 0))
  ELSE Rejected

\* operator!=: return !(px0 == px1);
NotEqual(px0, px1) ==
  LET equal == Equal(px0, px1)
  IN IF equal.status = "value" THEN Value(~equal.value) ELSE Rejected

\* The element values of the operands, in order: the MaxValue + 1 lowest and
\* the MaxValue highest of std::uint8_t, -MaxValue .. MaxValue of std::int32_t.
ValueSeq(T) ==
  [k \in 1 .. (2 * MaxValue + 1) |->
     IF T = "int32" THEN k - MaxValue - 1
     ELSE IF k <= MaxValue + 1 THEN k - 1
          ELSE 2 ^ 8 - (2 * MaxValue + 2 - k)]

ElementValues(T) == {ValueSeq(T)[k] : k \in DOMAIN ValueSeq(T)}

\* Channel values that differ from one channel to the next, starting at the
\* k-th element value.
Ramp(T, nr_channels, k) ==
  [i \in Cells(nr_channels) |->
     ValueSeq(T)[((k + i) % Len(ValueSeq(T))) + 1]]

\* The pixel types that compile, and the pixels of a type.
PixelTypes ==
  {t \in (1 .. MaxChannels) \X PixelFormat : PixelTypeOk(t[1], t[2])}

Pixels(T, nr_channels, pixel_format) ==
  {Pixel(T, nr_channels, pixel_format, Ramp(T, nr_channels, k)) :
     k \in 0 .. (Len(ValueSeq(T)) - 1)}

\* The pixels of format pixel_format that differ from px in at most one
\* channel.
Neighbours(px, pixel_format) ==
  {Pixel(px.value_type, px.nr_channels, pixel_format, px.data_)} \cup
  {Pixel(px.value_type, px.nr_channels, pixel_format,
         [px.data_ EXCEPT ![i] = v]) :
     i \in Cells(px.nr_channels), v \in ElementValues(px.value_type)}

Scalars(T) == {Scalar(T, v) : v \in ElementValues(T)}

ArithmeticOps == {"+", "-", "*", "/"}

(* ----------------------------------------------------------------- state *)

VARIABLES
  img,    \* the caller's source image
  out,    \* the caller's output image (img_dst of the two-buffer forms)
  orig,   \* img as it was handed in
  pre,    \* img and out as they were before the last call
  hist,   \* the calls made so far
  trace,  \* the storage accesses of the last call, in order
  assertions,  \* the build has SELENE_ASSERT compiled in
  failed, \* an assertion failed and stopped the program
  expr,   \* the pixel expression the program evaluates
  outcome \* what the expression came to

vars == <<img, out, orig, pre, hist, trace, assertions, failed, expr, outcome>>

\* No pixel expression is evaluated.
NoExpr == [form |-> "none", op |-> "none"]
NoOutcome == [status |-> "none"]

\* A call: the entry point, its template arguments and its run-time arguments.
Call(name, dir, flip_h, flip_v, w, h) ==
  [name |-> name, dir |-> dir, flip_h |-> flip_h, flip_v |-> flip_v,
   w |-> w, h |-> h]

FlipCall(name, flip_dir) == Call(name, flip_dir, FALSE, FALSE, 0, 0)
TransposeCall(name, flip_h, flip_v) == Call(name, "", flip_h, flip_v, 0, 0)
RotateCall(name, rot_dir) == Call(name, rot_dir, FALSE, FALSE, 0, 0)
PlainCall(name) == Call(name, "", FALSE, FALSE, 0, 0)
AllocateCall(w, h) == Call("maybe_allocate", "", FALSE, FALSE, w, h)

\* Every call so far was `call`.
OnlyCalled(call) == \A i \in 1 .. Len(hist) : hist[i] = call

\* A value-returning or in-place call is applied to its own result.
CanChain(call) == ~failed /\ Len(hist) < MaxChain /\ OnlyCalled(call)

\* A call into the caller's output buffer is repeated.
CanReuse(call) == ~failed /\ Len(hist) < MaxReuse /\ OnlyCalled(call)

Last == hist[Len(hist)]

\* The pixel of the inputs at (x, y): its row-major position, counted from 1,
\* so that every pixel of an input differs from every other.
Label(w, x, y) == y * w + x + 1

\* An image obtained from outside: w x h pixels, `padding` cells of padding
\* in every row.
InputImage(w, h, padding) ==
  [width |-> w, height |-> h, stride_bytes |-> (w + padding) * PixelSize,
   gen |-> 1,
   data |-> [y \in Cells(h) |->
               [x \in Cells(w + padding) |->
                  IF x < w THEN Label(w, x, y) ELSE PadMark]]]

\* An output buffer used before: w x h stale pixels, padded rows.
UsedImage(w, h, padding) ==
  [width |-> w, height |-> h, stride_bytes |-> (w + padding) * PixelSize,
   gen |-> 1,
   data |-> [y \in Cells(h) |->
               [x \in Cells(w + padding) |->
                  IF x < w THEN StaleMark ELSE PadMark]]]

InputImages ==
  {EmptyImage} \cup
  {InputImage(w, h, padding) :
     w \in 0 .. MaxWidth, h \in 0 .. MaxHeight, padding \in 0 .. MaxPadding}

\* The output buffers a caller passes for source `image`: an empty one, or one
\* used before with the source's shape, the transposed shape or another shape.
OutputShapes(image) ==
  {<<image.width, image.height>>, <<image.height, image.width>>, <<1, 1>>}

OutputImages(image) ==
  {EmptyImage} \cup
  {UsedImage(s[1], s[2], padding) :
     s \in OutputShapes(image), padding \in 0 .. MaxPadding}

Init ==
  /\ img \in InputImages
  /\ out \in OutputImages(img)
  /\ orig = img
  /\ pre = [img |-> img, out |-> out]
  /\ hist = << >>
  /\ trace = << >>
  /\ assertions \in BOOLEAN
  /\ failed = FALSE
  /\ expr = NoExpr
  /\ outcome = NoOutcome

\* The bookkeeping every call shares.
Called(call, accesses) ==
  /\ pre' = [img |-> img, out |-> out]
  /\ hist' = Append(hist, call)
  /\ orig' = orig
  /\ trace' = accesses
  /\ assertions' = assertions
  /\ UNCHANGED <<expr, outcome>>

\* A call that no assertion stops.
Completed == failed' = failed

(* --------------------------------------------------------------- actions *)

\* flip<flip_dir>(img, out)
Flip(flip_dir) ==
  /\ CanReuse(FlipCall("flip", flip_dir))
  /\ out' = FlipInto(flip_dir, img, out)
  /\ img' = img
  /\ Called(FlipCall("flip", flip_dir), FlipAccesses(flip_dir, img))
  /\ Completed

\* img = flip<flip_dir>(img)
FlipReturning(flip_dir) ==
  /\ CanChain(FlipCall("flip_value", flip_dir))
  /\ img' = FlipValue(flip_dir, img)
  /\ out' = out
  /\ Called(FlipCall("flip_value", flip_dir), FlipAccesses(flip_dir, img))
  /\ Completed

\* flip_horizontally_in_place(img)
FlipHorizontally ==
  /\ CanChain(PlainCall("flip_horizontally_in_place"))
  /\ img' = FlipHorizontallyInPlace(img)
  /\ out' = out
  /\ Called(PlainCall("flip_horizontally_in_place"),
            FlipHorizontallyInPlaceAccesses(img))
  /\ Completed

\* flip_vertically_in_place(img)
FlipVertically ==
  /\ CanChain(PlainCall("flip_vertically_in_place"))
  /\ img' = FlipVerticallyInPlace(img)
  /\ out' = out
  /\ Called(PlainCall("flip_vertically_in_place"),
            FlipVerticallyInPlaceAccesses(img))
  /\ Completed

\* flip_vertically_in_place(img), built with the row-buffer variant
FlipVerticallyRowBuffer ==
  /\ CanChain(PlainCall("flip_vertically_in_place_row_buffer"))
  /\ img' = FlipVerticallyInPlaceRowBuffer(img)
  /\ out' = out
  /\ Called(PlainCall("flip_vertically_in_place_row_buffer"),
            FlipVerticallyInPlaceRowBufferAccesses(img))
  /\ Completed

\* transpose<flip_h, flip_v>(img, out)
Transpose(flip_h, flip_v) ==
  /\ CanReuse(TransposeCall("transpose", flip_h, flip_v))
  /\ out' = TransposeInto(flip_h, flip_v, img, out)
  /\ img' = img
  /\ Called(TransposeCall("transpose", flip_h, flip_v),
            TransposeAccesses(flip_h, flip_v, img, out))
  /\ Completed

\* img = transpose<flip_h, flip_v>(img)
TransposeReturning(flip_h, flip_v) ==
  /\ CanChain(TransposeCall("transpose_value", flip_h, flip_v))
  /\ img' = TransposeValue(flip_h, flip_v, img)
  /\ out' = out
  /\ Called(TransposeCall("transpose_value", flip_h, flip_v),
            TransposeAccesses(FALSE, FALSE, img, EmptyImage))
  /\ Completed

\* rotate<rot_dir>(img, out)
Rotate(rot_dir) ==
  /\ CanReuse(RotateCall("rotate", rot_dir))
  /\ out' = RotateInto(rot_dir, img, out)
  /\ img' = img
  /\ Called(RotateCall("rotate", rot_dir), RotateAccesses(rot_dir, img, out))
  /\ Completed

\* A rotation is applied to the result of one rotation, of any direction.
CanCompose == ~failed /\ Len(hist) = 1 /\ hist[1].name = "rotate_value"

\* img = rotate<rot_dir>(img)
RotateReturning(rot_dir) ==
  /\ CanChain(RotateCall("rotate_value", rot_dir)) \/ CanCompose
  /\ img' = RotateValue(rot_dir, img)
  /\ out' = out
  /\ Called(RotateCall("rotate_value", rot_dir),
            RotateAccesses(rot_dir, img, EmptyImage))
  /\ Completed

\* out.maybe_allocate(w, h)
Reshape(w, h) ==
  /\ CanReuse(AllocateCall(w, h))
  /\ out' = MaybeAllocate(out, w, h)
  /\ img' = img
  /\ Called(AllocateCall(w, h), << >>)
  /\ Completed

\* A call with one image as both arguments is the only call the program makes.
CanAlias == ~failed /\ hist = << >>

\* flip<flip_dir>(img, img)
FlipAliased(flip_dir) ==
  /\ CanAlias
  /\ \E undefined \in UndefinedOutcomes(img,
                                        Allocate(img, img.width, img.height),
                                        FlipInto(flip_dir, img, EmptyImage)) :
       LET result == FlipOntoItself(flip_dir, img, assertions, undefined)
       IN /\ img' = result.image
          /\ failed' = result.failed
          /\ Called(FlipCall("flip_aliased", flip_dir),
                    IF result.failed THEN << >>
                    ELSE FlipAccesses(flip_dir, img))
  /\ out' = out

\* transpose<flip_h, flip_v>(img, img)
TransposeAliased(flip_h, flip_v) ==
  /\ CanAlias
  /\ \E undefined \in UndefinedOutcomes(
                        img, Allocate(img, img.height, img.width),
                        TransposeInto(flip_h, flip_v, img, EmptyImage)) :
       LET result == TransposeOntoItself(flip_h, flip_v, img, assertions,
                                         undefined)
       IN /\ img' = result.image
          /\ failed' = result.failed
          /\ Called(TransposeCall("transpose_aliased", flip_h, flip_v),
                    IF result.failed THEN << >>
                    ELSE TransposeAccesses(flip_h, flip_v, img, EmptyImage))
  /\ out' = out

\* rotate<rot_dir>(img, img)
RotateAliased(rot_dir) ==
  /\ CanAlias
  /\ \E undefined \in UndefinedOutcomes(
                        img, Allocate(img, img.height, img.width),
                        RotateInto(rot_dir, img, EmptyImage)) :
       LET result == RotateOntoItself(rot_dir, img, assertions, undefined)
       IN /\ img' = result.image
          /\ failed' = result.failed
          /\ Called(RotateCall("rotate_aliased", rot_dir),
                    IF result.failed THEN << >>
                    ELSE RotateAccesses(rot_dir, img, EmptyImage))
  /\ out' = out

Next ==
  \/ \E flip_dir \in FlipDirection : Flip(flip_dir)
  \/ \E flip_dir \in FlipDirection : FlipReturning(flip_dir)
  \/ FlipHorizontally
  \/ FlipVertically
  \/ FlipVerticallyRowBuffer
  \/ \E flip_h \in BOOLEAN, flip_v \in BOOLEAN : Transpose(flip_h, flip_v)
  \/ \E flip_h \in BOOLEAN, flip_v \in BOOLEAN :
       TransposeReturning(flip_h, flip_v)
  \/ \E rot_dir \in RotationDirection : Rotate(rot_dir)
  \/ \E rot_dir \in RotationDirection : RotateReturning(rot_dir)
  \/ \E s \in OutputShapes(img) : Reshape(s[1], s[2])
  \/ \E flip_dir \in FlipDirection : FlipAliased(flip_dir)
  \/ \E flip_h \in BOOLEAN, flip_v \in BOOLEAN :
       TransposeAliased(flip_h, flip_v)
  \/ \E rot_dir \in RotationDirection : RotateAliased(rot_dir)

Spec == Init /\ [][Next]_vars

(* ------------------------------------------------------ pixel expressions *)

\* The variables of the image transformations.
image_vars == <<img, out, orig, pre, hist, trace, assertions, failed>>

\* An expression: its form, its operator and its operands.
Expr(form, op, lhs, rhs) ==
  [form |-> form, op |-> op, lhs |-> lhs, rhs |-> rhs]

\* The program evaluates one expression over pixels, and no image call.
PixelInit ==
  /\ img = EmptyImage
  /\ out = EmptyImage
  /\ orig = EmptyImage
  /\ pre = [img |-> EmptyImage, out |-> EmptyImage]
  /\ hist = << >>
  /\ trace = << >>
  /\ assertions = FALSE
  /\ failed = FALSE
  /\ expr = NoExpr
  /\ outcome = NoOutcome

\* Nothing was evaluated yet.
CanEvaluate == expr = NoExpr

Evaluated(e, o) ==
  /\ expr' = e
  /\ outcome' = o
  /\ UNCHANGED image_vars

\* Pixel<T, nr_channels, pixel_format> px(args...) with `count` int arguments
ConstructPixel ==
  /\ CanEvaluate
  /\ \E T \in ElementTypes, nr_channels \in 1 .. MaxChannels,
        pixel_format \in PixelFormat, count \in 1 .. MaxChannels,
        k \in 0 .. (2 * MaxValue) :
       LET args == [j \in 1 .. count |-> Ramp("int32", count, k)[j - 1]]
       IN Evaluated(Expr("construction", "Pixel",
                         [value_type |-> T, nr_channels |-> nr_channels,
                          pixel_format |-> pixel_format],
                         args),
                    Construct(T, nr_channels, pixel_format, args))

\* lhs op rhs for two pixels of one channel count
PixelArithmetic ==
  /\ CanEvaluate
  /\ \E op \in ArithmeticOps, T \in ElementTypes, U \in ElementTypes,
        t0 \in PixelTypes, t1 \in PixelTypes :
       /\ t0[1] = t1[1]
       /\ \E lhs \in Pixels(T, t0[1], t0[2]), rhs \in Pixels(U, t1[1], t1[2]),
             undefined \in UndefinedDivisions :
            Evaluated(Expr("pixel_pixel", op, lhs, rhs),
                      PixelOpPixel(op, lhs, rhs, undefined))

\* lhs op rhs for a pixel and a scalar
PixelScalarArithmetic ==
  /\ CanEvaluate
  /\ \E op \in ArithmeticOps, T \in ElementTypes, U \in ElementTypes,
        t \in PixelTypes :
       \E lhs \in Pixels(T, t[1], t[2]), rhs \in Scalars(U),
          undefined \in UndefinedDivisions :
         Evaluated(Expr("pixel_scalar", op, lhs, rhs),
                   PixelOpScalar(op, lhs, rhs, undefined))

\* lhs op rhs for a scalar and a pixel
ScalarPixelArithmetic ==
  /\ CanEvaluate
  /\ \E op \in {"+", "*"}, T \in ElementTypes, U \in ElementTypes,
        t \in PixelTypes :
       \E lhs \in Scalars(T), rhs \in Pixels(U, t[1], t[2]) :
         Evaluated(Expr("scalar_pixel", op, lhs, rhs),
                   ScalarOpPixel(op, lhs, rhs))

\* -px
NegatePixel ==
  /\ CanEvaluate
  /\ \E T \in ElementTypes, t \in PixelTypes :
       \E px \in Pixels(T, t[1], t[2]) :
         Evaluated(Expr("negation", "-", px, px), Negation(px))

\* px0 == px1 and px0 != px1 for two pixels of one element type and one
\* channel count
ComparePixels ==
  /\ CanEvaluate
  /\ \E T \in ElementTypes, t0 \in PixelTypes, t1 \in PixelTypes :
       /\ t0[1] = t1[1]
       /\ \E px0 \in Pixels(T, t0[1], t0[2]) :
            \E px1 \in Neighbours(px0, t1[2]) :
              \/ Evaluated(Expr("comparison", "==", px0, px1), Equal(px0, px1))
              \/ Evaluated(Expr("comparison", "!=", px0, px1),
                           NotEqual(px0, px1))

PixelNext ==
  \/ ConstructPixel
  \/ PixelArithmetic
  \/ PixelScalarArithmetic
  \/ ScalarPixelArithmetic
  \/ NegatePixel
  \/ ComparePixels

PixelSpec == PixelInit /\ [][PixelNext]_vars

(* ---------------------------------------------------------------- claims *)

\* Two images have the same shape and the same pixels (padding aside).
SamePixels(a, b) ==
  /\ a.width = b.width
  /\ a.height = b.height
  /\ \A y \in Cells(a.height) : \A x \in Cells(a.width) :
       PixelAt(a, x, y) = PixelAt(b, x, y)

\* Some call was made, and the last one was `name`.
LastIs(name) == hist # << >> /\ Last.name = name

\* C1: after the two-buffer transpose<flip_h, flip_v>(src, dst) of a W x H
\* source, dst is H wide and W high and dst(dx, dy) = src(src_x, src_y) with
\* src_x = (flip_v ? W-1-dy : dy) and src_y = (flip_h ? H-1-dx : dx).
C1_TransposeMapsCoordinates ==
  LastIs("transpose") =>
    LET W == pre.img.width
        H == pre.img.height
    IN /\ out.width = H
       /\ out.height = W
       /\ \A dx \in Cells(H) : \A dy \in Cells(W) :
            PixelAt(out, dx, dy) =
              PixelAt(pre.img,
                      IF Last.flip_v THEN W - 1 - dy ELSE dy,
                      IF Last.flip_h THEN H - 1 - dx ELSE dx)

\* A non-square source was transposed with both flags set.
C1_Witness ==
  /\ LastIs("transpose")
  /\ Last.flip_h /\ Last.flip_v
  /\ pre.img.width = MaxWidth /\ pre.img.height = 2
  /\ out.width = 2 /\ out.height = MaxWidth
  /\ PixelAt(out, 0, 0) # PixelAt(pre.img, 0, 0)

\* C2: after the two-buffer flip<d>(src, dst) of a W x H source, dst is W x H
\* and Horizontal gives dst(x,y) = src(W-1-x, y), Vertical gives
\* dst(x,y) = src(x, H-1-y), Both gives dst(x,y) = src(W-1-x, H-1-y), which
\* is also Horizontal after Vertical and Vertical after Horizontal.
C2_FlipMapsCoordinates ==
  LastIs("flip") =>
    LET W == pre.img.width
        H == pre.img.height
        d == Last.dir
    IN /\ out.width = W
       /\ out.height = H
       /\ \A x \in Cells(W) : \A y \in Cells(H) :
            PixelAt(out, x, y) =
              PixelAt(pre.img,
                      IF d \in {"Horizontal", "Both"} THEN W - 1 - x ELSE x,
                      IF d \in {"Vertical", "Both"} THEN H - 1 - y ELSE y)
       /\ d = "Both" =>
            /\ SamePixels(out, FlipValue("Vertical",
                                         FlipValue("Horizontal", pre.img)))
            /\ SamePixels(out, FlipValue("Horizontal",
                                         FlipValue("Vertical", pre.img)))

\* A source with several rows and columns was flipped along both axes.
C2_Witness ==
  /\ LastIs("flip")
  /\ Last.dir = "Both"
  /\ pre.img.width = MaxWidth /\ pre.img.height = MaxHeight
  /\ PixelAt(out, 0, 0) = PixelAt(pre.img, MaxWidth - 1, MaxHeight - 1)
  /\ PixelAt(out, 0, 0) # PixelAt(pre.img, 0, 0)

\* The primitive the rotation table names for a direction, applied to the
\* same source and output buffer (for CW0/CCW0 the copy has src's pixels).
RotationPrimitive(rot_dir, img_src, img_dst) ==
  CASE rot_dir \in {"Clockwise0", "Counterclockwise0"} -> img_src
    [] rot_dir \in {"Clockwise90", "Counterclockwise270"} ->
         TransposeInto(TRUE, FALSE, img_src, img_dst)
    [] rot_dir \in {"Clockwise180", "Counterclockwise180"} ->
         FlipInto("Both", img_src, img_dst)
    [] rot_dir \in {"Clockwise270", "Counterclockwise90"} ->
         TransposeInto(FALSE, TRUE, img_src, img_dst)

\* C3: rotate handles each of the eight directions and leaves in dst what the
\* corresponding primitive leaves there: a same-shape copy for CW0/CCW0,
\* transpose<true,false> for CW90/CCW270, flip<Both> for CW180/CCW180,
\* transpose<false,true> for CW270/CCW90.
C3_RotateIsItsPrimitive ==
  LastIs("rotate") =>
    /\ Last.dir \in RotationDirection
    /\ SamePixels(out, RotationPrimitive(Last.dir, pre.img, pre.out))
    /\ Last.dir \in {"Clockwise90", "Counterclockwise270"} =>
         \A x \in Cells(out.width) : \A y \in Cells(out.height) :
           PixelAt(out, x, y) = PixelAt(pre.img, y, pre.img.height - 1 - x)

\* The 2 x 3 image with rows [1,2], [3,4], [5,6] was rotated a quarter turn
\* clockwise into the 3 x 2 image with rows [5,3,1], [6,4,2].
C3_Witness ==
  /\ LastIs("rotate")
  /\ Last.dir = "Counterclockwise270"
  /\ pre.img.width = 2 /\ pre.img.height = 3
  /\ \A x \in Cells(2) : \A y \in Cells(3) :
       PixelAt(pre.img, x, y) = 2 * y + x + 1
  /\ out.width = 3 /\ out.height = 2
  /\ PixelAt(out, 0, 0) = 5 /\ PixelAt(out, 1, 0) = 3 /\ PixelAt(out, 2, 0) = 1
  /\ PixelAt(out, 0, 1) = 6 /\ PixelAt(out, 1, 1) = 4 /\ PixelAt(out, 2, 1) = 2

\* C4: the value-returning flip, transpose and rotate return what the
\* two-buffer form with the same direction or flags leaves in an empty,
\* default-constructed buffer.
C4_ValueFormIsTwoBufferForm ==
  /\ LastIs("flip_value") =>
       SamePixels(img, FlipInto(Last.dir, pre.img, EmptyImage))
  /\ LastIs("transpose_value") =>
       SamePixels(img, TransposeInto(Last.flip_h, Last.flip_v, pre.img,
                                     EmptyImage))
  /\ LastIs("rotate_value") =>
       SamePixels(img, RotateInto(Last.dir, pre.img, EmptyImage))

\* C5: flipping twice in the same direction gives back the shape and the
\* pixels of the image: flip<d>(flip<d>(B)) for the value-returning form, and
\* flipping the output of a two-buffer flip again.
C5_FlipIsInvolution ==
  /\ (LastIs("flip_value") /\ Len(hist) = 2) => SamePixels(img, orig)
  /\ LastIs("flip") =>
       SamePixels(FlipInto(Last.dir, out, EmptyImage), pre.img)

\* A 3 x 3 image was flipped twice along both axes, and once was not enough.
C5_Witness ==
  /\ LastIs("flip_value") /\ Len(hist) = 2
  /\ Last.dir = "Both"
  /\ orig.width = 3 /\ orig.height = 3
  /\ ~SamePixels(pre.img, orig)
  /\ SamePixels(img, orig)

\* C6: four quarter turns clockwise give back the shape and the pixels of
\* the image, square or not.
C6_FourQuarterTurns ==
  (Len(hist) = 4 /\ Last = RotateCall("rotate_value", "Clockwise90")) =>
    SamePixels(img, orig)

\* A non-square image was turned four times; after the third turn it had the
\* transposed shape and after the fourth its own shape and pixels.
C6_Witness ==
  /\ Len(hist) = 4 /\ Last = RotateCall("rotate_value", "Clockwise90")
  /\ orig.width = 2 /\ orig.height = 3
  /\ pre.img.width = 3 /\ pre.img.height = 2
  /\ img.width = 2 /\ img.height = 3
  /\ PixelAt(img, 1, 2) = PixelAt(orig, 1, 2)
  /\ PixelAt(orig, 1, 2) # PixelAt(orig, 0, 0)

\* C7: the plain transpose of the plain transpose of an image has the width,
\* the height and the pixels of the image.
C7_TransposeIsSelfInverse ==
  /\ (Len(hist) = 2 /\ Last = TransposeCall("transpose_value", FALSE, FALSE))
       => SamePixels(img, orig)
  /\ (LastIs("transpose") /\ ~Last.flip_h /\ ~Last.flip_v) =>
       SamePixels(TransposeInto(FALSE, FALSE, out, EmptyImage), pre.img)

\* A non-square image was transposed twice.
C7_Witness ==
  /\ Len(hist) = 2 /\ Last = TransposeCall("transpose_value", FALSE, FALSE)
  /\ orig.width = 3 /\ orig.height = 2
  /\ pre.img.width = 2 /\ pre.img.height = 3
  /\ PixelAt(pre.img, 0, 1) = PixelAt(orig, 1, 0)
  /\ SamePixels(img, orig)
  /\ PixelAt(orig, 1, 0) # PixelAt(orig, 0, 1)

\* C8: flip_horizontally_in_place leaves the image with the shape and the
\* pixels that the two-buffer flip<Horizontal> of the same image puts in dst,
\* for odd and even widths.
C8_InPlaceHorizontalIsFlip ==
  LastIs("flip_horizontally_in_place") =>
    SamePixels(img, FlipInto("Horizontal", pre.img, pre.out))

\* An image of odd width, with padded rows, was flipped in place.
C8_Witness ==
  /\ LastIs("flip_horizontally_in_place")
  /\ pre.img.width = 3 /\ pre.img.height > 1
  /\ pre.img.stride_bytes > 3 * PixelSize
  /\ PixelAt(img, 0, 0) = PixelAt(pre.img, 2, 0)
  /\ PixelAt(img, 0, 0) # PixelAt(pre.img, 0, 0)
  /\ PixelAt(img, 1, 1) = PixelAt(pre.img, 1, 1)

\* The rows of `a` are the rows of `b` in reverse order.
RowsReversed(a, b) ==
  /\ a.width = b.width
  /\ a.height = b.height
  /\ \A y \in Cells(a.height) : \A x \in Cells(a.width) :
       PixelAt(a, x, y) = PixelAt(b, x, b.height - 1 - y)

\* C9: the swap-based flip_vertically_in_place leaves in row y the original
\* row H-1-y, for odd and even heights, and the row-buffer variant leaves
\* the same shape and pixels.
C9_InPlaceVerticalVariantsAgree ==
  /\ LastIs("flip_vertically_in_place") =>
       /\ RowsReversed(img, pre.img)
       /\ SamePixels(img, FlipVerticallyInPlaceRowBuffer(pre.img))
  /\ LastIs("flip_vertically_in_place_row_buffer") =>
       /\ RowsReversed(img, pre.img)
       /\ SamePixels(img, FlipVerticallyInPlace(pre.img))

\* An image of odd height was flipped by the row-buffer variant.
C9_Witness ==
  /\ LastIs("flip_vertically_in_place_row_buffer")
  /\ Len(hist) = 1
  /\ orig.height = 3 /\ orig.width = 2
  /\ PixelAt(img, 0, 0) = PixelAt(orig, 0, 2)
  /\ PixelAt(img, 0, 0) # PixelAt(orig, 0, 0)
  /\ PixelAt(img, 1, 1) = PixelAt(orig, 1, 1)

\* The image object kept its backing store, stride and every cell of it.
Untouched(after, before) == after = before

\* The cells of the rows beyond the pixels are those of `before`.
PaddingKept(after, before) ==
  /\ after.gen = before.gen
  /\ after.stride_bytes = before.stride_bytes
  /\ \A y \in Cells(before.height) :
       \A x \in Cells(RowCells(before)) \ Cells(before.width) :
         after.data[y][x] = before.data[y][x]

\* The image is w x h and tightly packed.
TightlyPacked(image, w, h) ==
  /\ image.width = w
  /\ image.height = h
  /\ image.stride_bytes = w * PixelSize

\* What maybe_allocate(w, h) promises of the buffer it is called on.
ReusedOrReallocated(after, before, w, h) ==
  IF before.width = w /\ before.height = h
  THEN PaddingKept(after, before)
  ELSE TightlyPacked(after, w, h)

\* C10: maybe_allocate(w, h) on a buffer that is w x h already changes
\* nothing of it (backing store, contents, stride, padding); on a buffer of
\* another shape it leaves a w x h buffer of stride w * sizeof(PixelType).
\* The same holds of the output buffer that flip and transpose reshape.
C10_MaybeAllocateReusesOrReallocates ==
  /\ LastIs("maybe_allocate") =>
       /\ ReusedOrReallocated(out, pre.out, Last.w, Last.h)
       /\ (pre.out.width = Last.w /\ pre.out.height = Last.h)
            => Untouched(out, pre.out)
       /\ Len(hist) = 2 => Untouched(out, pre.out)
  /\ LastIs("flip") =>
       ReusedOrReallocated(out, pre.out, pre.img.width, pre.img.height)
  /\ LastIs("transpose") =>
       ReusedOrReallocated(out, pre.out, pre.img.height, pre.img.width)

\* maybe_allocate was called with the shape of a padded buffer holding
\* stale pixels: the pixels and the padding are still there.
C10_Witness ==
  /\ LastIs("maybe_allocate")
  /\ Last.w = 2 /\ Last.h = 3
  /\ pre.out.width = 2 /\ pre.out.height = 3
  /\ pre.out.stride_bytes > 2 * PixelSize
  /\ PixelAt(out, 1, 2) = StaleMark
  /\ out.data[2][2] = PadMark
  /\ out.gen = pre.out.gen

\* The last call passed one image as source and destination.
LastIsAliased ==
  \/ LastIs("flip_aliased")
  \/ LastIs("transpose_aliased")
  \/ LastIs("rotate_aliased")

\* C14: with assertions compiled in, a two-buffer flip, transpose or rotate
\* (any direction, CW0 and CCW0 included) called with one image as src and
\* dst fails the assertion before the image is reshaped or a pixel is
\* touched: the image keeps its shape and content.
C14_AssertionPrecedesEveryWrite ==
  (LastIsAliased /\ assertions) =>
    /\ failed
    /\ img = pre.img
    /\ trace = << >>

\* A self-flip of an image that a flip would change failed its assertion.
C14_Witness ==
  /\ LastIs("flip_aliased")
  /\ Last.dir = "Horizontal"
  /\ assertions /\ failed
  /\ img.width = 3 /\ img.height = 2
  /\ ~SamePixels(FlipInto("Horizontal", img, EmptyImage), img)
  /\ img = orig

\* (x, y) is a pixel of a w x h image.
InShape(x, y, w, h) == x \in Cells(w) /\ y \in Cells(h)

\* The image the last call wrote its result to.
Destination ==
  IF Last.name \in {"flip", "transpose", "rotate"} THEN out ELSE img

\* The last call was one of the transformations, with distinct arguments.
LastIsTransformation ==
  /\ hist # << >>
  /\ Last.name # "maybe_allocate"
  /\ ~LastIsAliased

\* One access stays inside the buffer it goes to; a computed index is not
\* negative.
AccessInBounds(a) ==
  CASE a.kind = "index" -> a.x >= 0
    [] a.buf = "src" ->
         a.kind = "read" /\ InShape(a.x, a.y, pre.img.width, pre.img.height)
    [] a.buf = "dst" ->
         a.kind = "write" /\
         InShape(a.x, a.y, Destination.width, Destination.height)
    [] a.buf = "img" -> InShape(a.x, a.y, img.width, img.height)
    [] a.buf = "buffer" -> InShape(a.x, a.y, img.width, 1)

\* C15: every pixel that flip, the in-place flips, transpose and rotate read
\* lies within the W x H source, every pixel they write lies within the
\* destination as it is after the call, and no mirrored index (W-1-x, H-1-y)
\* they compute is below 0, for every shape and every direction or flag pair.
C15_AccessesStayInBounds ==
  LastIsTransformation =>
    \A i \in 1 .. Len(trace) : AccessInBounds(trace[i])

\* A 3 x 2 source was transposed with both flags set: the first pixel written
\* was read from the far corner, and a mirrored index came out as 0.
C15_Witness ==
  /\ LastIs("transpose")
  /\ Last.flip_h /\ Last.flip_v
  /\ pre.img.width = 3 /\ pre.img.height = 2
  /\ Len(trace) = 24
  /\ trace[3] = ReadOf("src", 2, 1)
  /\ trace[4] = WriteOf("dst", 0, 0)
  /\ \E i \in 1 .. Len(trace) : trace[i] = IndexOf(0)
  /\ \E i \in 1 .. Len(trace) : trace[i] = WriteOf("dst", 1, 2)

\* The last call was one of the in-place flips.
LastIsInPlaceFlip ==
  \/ LastIs("flip_horizontally_in_place")
  \/ LastIs("flip_vertically_in_place")
  \/ LastIs("flip_vertically_in_place_row_buffer")

\* Every pixel access of the last call to an image has x below the width W
\* of the source: no access goes to the padding of a row.
NoPaddingAccessed ==
  \A i \in 1 .. Len(trace) :
    trace[i].kind \in {"read", "write"} => trace[i].x < pre.img.width

\* C16: a flip touches only the W pixels of each row.  flip into an output
\* that already has the source's shape keeps the output's backing store, its
\* stride and every padding cell; so do both in-place flips on their image;
\* and no flip reads or writes a cell at x >= W.
C16_FlipsLeavePaddingAlone ==
  /\ (LastIs("flip") /\ pre.out.width = pre.img.width
                     /\ pre.out.height = pre.img.height)
       => PaddingKept(out, pre.out) /\ NoPaddingAccessed
  /\ LastIs("flip") => img = pre.img /\ NoPaddingAccessed
  /\ LastIsInPlaceFlip => PaddingKept(img, pre.img) /\ NoPaddingAccessed

\* A padded 3 x 2 source was flipped in both directions into a padded 3 x 2
\* output: the pixels arrived, the padding of the output is as it was.
C16_Witness ==
  /\ LastIs("flip")
  /\ Last.dir = "Both"
  /\ pre.img.width = 3 /\ pre.img.height = 2
  /\ pre.out.width = 3 /\ pre.out.height = 2
  /\ RowCells(pre.img) = 4 /\ RowCells(pre.out) = 4
  /\ PixelAt(out, 0, 0) = PixelAt(img, 2, 1)
  /\ PixelAt(pre.out, 0, 0) = StaleMark
  /\ out.data[0][3] = PadMark /\ out.data[1][3] = PadMark
  /\ out.stride_bytes = pre.out.stride_bytes

\* The last call was a two-buffer transformation of img into out.
LastIsTwoBuffer == LastIs("flip") \/ LastIs("transpose") \/ LastIs("rotate")

\* What the last two-buffer call leaves in an output buffer that starts empty.
IntoEmpty ==
  CASE Last.name = "flip" -> FlipInto(Last.dir, pre.img, EmptyImage)
    [] Last.name = "transpose" ->
         TransposeInto(Last.flip_h, Last.flip_v, pre.img, EmptyImage)
    [] Last.name = "rotate" -> RotateInto(Last.dir, pre.img, EmptyImage)

\* The number of times the last call wrote pixel (x, y) of the output.
WritesTo(x, y) ==
  Cardinality({i \in 1 .. Len(trace) : trace[i] = WriteOf("dst", x, y)})

\* C17: a two-buffer flip, transpose or rotate with distinct src and dst leaves
\* src as it was (shape and pixels), writes every pixel of dst exactly once and
\* nothing else, and leaves in dst the shape and pixels it would leave in an
\* empty dst: the result does not depend on what dst held or how it was shaped.
C17_ResultDependsOnSourceOnly ==
  LastIsTwoBuffer =>
    /\ img = pre.img
    /\ \A y \in Cells(out.height) : \A x \in Cells(out.width) :
         WritesTo(x, y) = 1
    /\ \A i \in 1 .. Len(trace) :
         trace[i].kind = "write" => trace[i].buf = "dst"
    /\ SamePixels(out, IntoEmpty)

\* A 2 x 3 source was flipped vertically into an output that held one stale
\* pixel: the output is 2 x 3 now, and each of its 6 pixels was written once.
C17_Witness ==
  /\ LastIs("flip")
  /\ Last.dir = "Vertical"
  /\ pre.img.width = 2 /\ pre.img.height = 3
  /\ pre.out.width = 1 /\ pre.out.height = 1
  /\ PixelAt(pre.out, 0, 0) = StaleMark
  /\ out.width = 2 /\ out.height = 3
  /\ PixelAt(out, 1, 0) = PixelAt(img, 1, 2)
  /\ Len(trace) = 15
  /\ WritesTo(1, 0) = 1

\* The clockwise angle of a rotation direction, in degrees.
ClockwiseAngle(rot_dir) ==
  CASE rot_dir \in {"Clockwise0", "Counterclockwise0"} -> 0
    [] rot_dir \in {"Clockwise90", "Counterclockwise270"} -> 90
    [] rot_dir \in {"Clockwise180", "Counterclockwise180"} -> 180
    [] rot_dir \in {"Clockwise270", "Counterclockwise90"} -> 270

\* The clockwise direction of an angle.
ClockwiseOf(angle) ==
  CASE angle = 0 -> "Clockwise0"
    [] angle = 90 -> "Clockwise90"
    [] angle = 180 -> "Clockwise180"
    [] angle = 270 -> "Clockwise270"

\* The image is the result of two value-returning rotations of orig.
RotatedTwice ==
  /\ Len(hist) = 2
  /\ hist[1].name = "rotate_value"
  /\ hist[2].name = "rotate_value"

\* C18: rotating by b and then by a gives the shape and pixels of the single
\* rotation by (a + b) mod 360, for all clockwise angles a and b of the eight
\* directions; a counterclockwise turn undoes the clockwise turn of the same
\* angle, and two clockwise quarter turns are the half turn.
C18_RotationsComposeAdditively ==
  RotatedTwice =>
    LET b == ClockwiseAngle(hist[1].dir)
        a == ClockwiseAngle(hist[2].dir)
    IN /\ SamePixels(img, RotateValue(ClockwiseOf((a + b) % 360), orig))
       /\ (a + b) % 360 = 0 => SamePixels(img, orig)
       /\ (a = 90 /\ b = 90) => SamePixels(img, RotateValue("Clockwise180", orig))

\* A 3 x 2 image was turned a quarter clockwise, to 2 x 3, and then a quarter
\* clockwise again: it is 3 x 2 and upside down, as after the half turn.
C18_Witness ==
  /\ RotatedTwice
  /\ hist[1].dir = "Clockwise90" /\ hist[2].dir = "Clockwise90"
  /\ orig.width = 3 /\ orig.height = 2
  /\ pre.img.width = 2 /\ pre.img.height = 3
  /\ img.width = 3 /\ img.height = 2
  /\ PixelAt(img, 0, 0) = PixelAt(orig, 2, 1)
  /\ PixelAt(img, 2, 0) = PixelAt(orig, 0, 1)
  /\ ~SamePixels(img, orig)

\* The source of the last call had no pixels.
DegenerateSource == pre.img.width = 0 \/ pre.img.height = 0

\* The shape the shape laws give the result of the last call: W x H for the
\* flips and the rotations by 0 and 180, H x W for transpose and the
\* rotations by 90 and 270.
ShapeLawHolds ==
  LET W == pre.img.width
      H == pre.img.height
      swapped ==
        \/ Last.name \in {"transpose", "transpose_value"}
        \/ /\ Last.name \in {"rotate", "rotate_value"}
           /\ ClockwiseAngle(Last.dir) \in {90, 270}
  IN /\ Destination.width = (IF swapped THEN H ELSE W)
     /\ Destination.height = (IF swapped THEN W ELSE H)

\* The last call computes height - y - 1 once per row or row pair, ahead of
\* the row's pixels: the vertical flips and the half turn.
MirrorsRows ==
  \/ Last.name \in {"flip", "flip_value"} /\ Last.dir \in {"Vertical", "Both"}
  \/ /\ Last.name \in {"rotate", "rotate_value"}
     /\ ClockwiseAngle(Last.dir) = 180
  \/ Last.name \in {"flip_vertically_in_place",
                    "flip_vertically_in_place_row_buffer"}

\* C19 as stated: on a source with W = 0 or H = 0 the transformations read
\* and write no pixel and evaluate no mirrored index, and the result has the
\* shape the shape laws give.
C19_DegenerateEvaluatesNoIndex ==
  (LastIsTransformation /\ DegenerateSource) =>
    /\ trace = << >>
    /\ ShapeLawHolds

\* C19, amended: on a source with W = 0 or H = 0 the transformations read and
\* write no pixel, and the result has the shape the shape laws give.  A
\* mirrored index is evaluated only by the calls that mirror rows, on a
\* source of width 0 and height H > 0; it is H - 1 - y and lies in 0 .. H-1.
C19_DegenerateTouchesNoPixel ==
  (LastIsTransformation /\ DegenerateSource) =>
    /\ \A i \in 1 .. Len(trace) :
         /\ trace[i].kind = "index"
         /\ trace[i].x \in Cells(pre.img.height)
    /\ trace # << >> => MirrorsRows /\ pre.img.width = 0
    /\ ShapeLawHolds

\* A source of width 0 and height 3 was flipped vertically into an output of
\* another shape: the output is 0 x 3, and the call evaluated 3 - 1 - y for
\* each of the three rows and touched no pixel.
C19_Witness ==
  /\ LastIs("flip")
  /\ Last.dir = "Vertical"
  /\ pre.img.width = 0 /\ pre.img.height = 3
  /\ pre.out.width = 1 /\ pre.out.height = 1
  /\ out.width = 0 /\ out.height = 3
  /\ trace = <<IndexOf(2), IndexOf(1), IndexOf(0)>>

\* The expression is one of the arithmetic operators or the negation, and it
\* yielded a pixel.
YieldedPixel ==
  /\ expr.form \in {"pixel_pixel", "pixel_scalar", "scalar_pixel", "negation"}
  /\ outcome.status = "value"

\* The pixel among the operands.
PixelOperand == IF expr.form = "scalar_pixel" THEN expr.rhs ELSE expr.lhs

\* p[i] op q[i] (p[i] op s, s op p[i], -p[i]) as the integer it is.
ExactElement(i) ==
  IF expr.form = "negation"
  THEN -expr.lhs.data_[i]
  ELSE ElementOp(expr.op, At(expr.lhs, i), At(expr.rhs, i))

\* Element i is not a division by zero.
DefinedAt(i) == ~(expr.op = "/" /\ At(expr.rhs, i) = 0)

\* v is a value of element type T.
Representable(T, v) == T = "int32" \/ v \in 0 .. (2 ^ 8 - 1)

\* The element type of the result: the common type of the operands' element
\* types, the operand's own for the negation.
ResultElementType ==
  IF expr.form = "negation"
  THEN expr.lhs.value_type
  ELSE CommonType(expr.lhs.value_type, expr.rhs.value_type)

\* C11 as stated: every element of p op q, p op s, s op p and -p is the value
\* of p[i] op q[i], p[i] op s, s op p[i] and -p[i] (divisions by zero aside).
C11_ElementwiseExactly ==
  YieldedPixel =>
    \A i \in Cells(PixelOperand.nr_channels) :
      DefinedAt(i) => outcome.value.data_[i] = ExactElement(i)

\* C11, amended: the result has the operand's N channels and the common
\* element type, and element i is p[i] op q[i] (p[i] op s, s op p[i], -p[i])
\* converted to that element type: it is that value whenever the type can
\* represent it, and that value modulo 2^8 for std::uint8_t (divisions by
\* zero aside).
C11_ElementwiseInResultType ==
  YieldedPixel =>
    /\ outcome.value.nr_channels = PixelOperand.nr_channels
    /\ outcome.value.value_type = ResultElementType
    /\ \A i \in Cells(PixelOperand.nr_channels) :
         DefinedAt(i) =>
           /\ Representable(ResultElementType, outcome.value.data_[i])
           /\ Representable(ResultElementType, ExactElement(i))
                => outcome.value.data_[i] = ExactElement(i)
           /\ (outcome.value.data_[i] - ExactElement(i)) % (2 ^ 8) = 0

\* Two std::uint8_t pixels of three channels were added: the first element
\* is the sum 254 + 1, the second is 255 + 2 modulo 256.
C11_Witness ==
  /\ YieldedPixel
  /\ expr.form = "pixel_pixel" /\ expr.op = "+"
  /\ expr.lhs.value_type = "uint8" /\ expr.rhs.value_type = "uint8"
  /\ expr.lhs.nr_channels = 3
  /\ expr.lhs.data_[0] = 254 /\ expr.rhs.data_[0] = 1
  /\ expr.lhs.data_[1] = 255 /\ expr.rhs.data_[1] = 2
  /\ outcome.value.data_[0] = 255
  /\ outcome.value.data_[1] = 1

\* C12: for two format-compatible pixels of one element type and N channels,
\* p == q is true exactly when p[i] = q[i] for every i in 0 .. N-1, and
\* p != q is the negation of p == q.
C12_EqualityComparesEveryChannel ==
  (expr.form = "comparison" /\ outcome.status = "value") =>
    LET same == \A i \in Cells(expr.lhs.nr_channels) :
                  expr.lhs.data_[i] = expr.rhs.data_[i]
    IN /\ expr.op = "==" => outcome.value = same
       /\ expr.op = "!=" => outcome.value = ~same

\* An RGB pixel was compared with a pixel of unknown format that differs
\* from it in the last channel only: they are not equal.
C12_Witness ==
  /\ expr.form = "comparison" /\ expr.op = "=="
  /\ expr.lhs.pixel_format = "RGB" /\ expr.rhs.pixel_format = "Unknown"
  /\ expr.lhs.data_[0] = expr.rhs.data_[0]
  /\ expr.lhs.data_[1] = expr.rhs.data_[1]
  /\ expr.lhs.data_[2] # expr.rhs.data_[2]
  /\ outcome = Value(FALSE)

\* The formats of the two operands are both known and differ.
FormatsMismatch ==
  /\ expr.lhs.pixel_format # expr.rhs.pixel_format
  /\ expr.lhs.pixel_format # "Unknown"
  /\ expr.rhs.pixel_format # "Unknown"

\* C13: a Pixel type of a known format whose channel count is not the
\* format's is rejected and yields no value; a Pixel-Pixel +, -, *, /, == or
\* != between operands of two different known formats is rejected and yields
\* no result.
C13_MismatchesAreRejected ==
  /\ ( /\ expr.form = "construction"
       /\ expr.lhs.pixel_format # "Unknown"
       /\ get_nr_channels(expr.lhs.pixel_format) # expr.lhs.nr_channels )
       => outcome = Rejected
  /\ (expr.form \in {"pixel_pixel", "comparison"} /\ FormatsMismatch)
       => outcome = Rejected

\* An RGB pixel and a BGR pixel with the same three values were compared
\* with !=: the comparison was rejected.
C13_Witness ==
  /\ expr.form = "comparison" /\ expr.op = "!="
  /\ expr.lhs.pixel_format = "RGB" /\ expr.rhs.pixel_format = "BGR"
  /\ expr.lhs.data_ = expr.rhs.data_
  /\ outcome = Rejected

\* C20 as stated: -p is defined for a pixel p of every format and channel
\* count, and is a pixel of p's format and channel count whose elements are
\* the negated elements of p.
C20_NegationKeepsFormat ==
  expr.form = "negation" =>
    /\ outcome.status = "value"
    /\ outcome.value.pixel_format = expr.lhs.pixel_format
    /\ outcome.value.nr_channels = expr.lhs.nr_channels
    /\ \A i \in Cells(expr.lhs.nr_channels) :
         outcome.value.data_[i] =
           StaticCast(expr.lhs.value_type, -expr.lhs.data_[i])

\* q op p for the operands of the Pixel-Pixel expression p op q, with a
\* division by zero that goes on.
Commuted ==
  PixelOpPixel(expr.op, expr.rhs, expr.lhs, [trap |-> FALSE, value |-> 0])

\* C21: the result of a Pixel-Pixel +, -, *, / on operands of compatible
\* formats F0 (left) and F1 (right) has format F0 when F1 is Unknown and F1
\* otherwise; it has the known format whenever an operand has one, is Unknown
\* only when both are, and is the format of the result of q op p.
C21_ResultTakesTheKnownFormat ==
  (expr.form = "pixel_pixel" /\ outcome.status = "value") =>
    LET F0 == expr.lhs.pixel_format
        F1 == expr.rhs.pixel_format
        F == outcome.value.pixel_format
    IN /\ F1 = "Unknown" => F = F0
       /\ F1 # "Unknown" => F = F1
       /\ F0 # "Unknown" => F = F0
       /\ F = "Unknown" <=> (F0 = "Unknown" /\ F1 = "Unknown")
       /\ Commuted.status = "value"
       /\ Commuted.value.pixel_format = F

\* A pixel of unknown format minus an RGB pixel: the difference is an RGB
\* pixel, as is that of the operands exchanged.
C21_Witness ==
  /\ expr.form = "pixel_pixel" /\ expr.op = "-"
  /\ expr.lhs.pixel_format = "Unknown" /\ expr.rhs.pixel_format = "RGB"
  /\ outcome.status = "value"
  /\ outcome.value.pixel_format = "RGB"
  /\ Commuted.value.pixel_format = "RGB"
  /\ Commuted.value.data_ # outcome.value.data_

====
